---- MODULE Spec2Model ----
(***************************************************************************)
(* A model of the knobs configuration registry (darccio/knobs): the        *)
(* registry of definitions, the scopes with their lazily initialised       *)
(* states, the environment resolution of Definition.initializer and the    *)
(* origin-gated SetScope, as goroutines that take the locks the code takes.*)
(*                                                                         *)
(* Strings are sequences of one-character strings, so that TrimSpace,      *)
(* transforms and parsers compute on them.  An optional value (a nil-able  *)
(* interface or pointer) is a sequence of length at most one.              *)
(***************************************************************************)
EXTENDS Integers, Sequences, FiniteSets, TLC

\* ---------------------------------------------------------------- bounds
MaxKnobs == 3       \* identifiers the counter may hand out
NumProcs == 2       \* goroutines
NumScopes == 2      \* scopes
MaxLen == 2         \* length of a raw environment value
MaxCalls == 3       \* calls concurrent goroutines make in one run
MaxSeqCalls == 4    \* calls a single goroutine makes in one run
MaxEnvCalls == 3    \* calls of a goroutine that changes the environment

KnobIds == 1..MaxKnobs
Procs == 1..NumProcs
Scopes == 1..NumScopes

\* ------------------------------------------------------- optional values
None == <<>>
Some(x) == <<x>>
Has(o) == o # <<>>
Val(o) == o[1]

\* --------------------------------------------------------------- origins
Default == 0
Env == 1
Code == 2
\* A caller-defined origin (library users can define their own origins).
Custom == Code + 1
Origins == {Default, Env, Code, Custom}

\* --------------------------------------------------------------- strings
Chars == {" ", "a"}
Keys == {"A", "B"}

RECURSIVE StringsUpTo(_)
StringsUpTo(n) ==
    IF n = 0 THEN {<<>>}
    ELSE LET S == StringsUpTo(n - 1)
         IN S \cup {Append(s, c) : s \in {t \in S : Len(t) = n - 1}, c \in Chars}

RawValues == StringsUpTo(MaxLen)

RECURSIVE TrimLeft(_)
TrimLeft(s) == IF s # <<>> /\ Head(s) = " " THEN TrimLeft(Tail(s)) ELSE s

RECURSIVE TrimRight(_)
TrimRight(s) ==
    IF s # <<>> /\ s[Len(s)] = " " THEN TrimRight(SubSeq(s, 1, Len(s) - 1)) ELSE s

\* strings.TrimSpace
TrimSpace(s) == TrimRight(TrimLeft(s))

\* ------------------------------------------------------------ transforms
\* EnvVar.Transform func(s string) string: nil, the mapping of the tests (a
\* known value is remapped, any other value yields ""), and a transform
\* that answers the same value whatever it is given.
Transforms == {"nil", "mapping", "constant"}

ApplyTransform(t, v) ==
    CASE t = "mapping" -> IF v = <<"a">> THEN <<"b">> ELSE <<>>
      [] t = "constant" -> <<"b", "b">>
      [] OTHER -> v

\* getValue without the !ok check: an unset variable reads as "".
getValueInUnchecked(e, ev) ==
    LET v == IF Has(e[ev.Key]) THEN TrimSpace(Val(e[ev.Key])) ELSE <<>>
    IN IF ev.Transform # "nil" THEN ApplyTransform(ev.Transform, v) ELSE v

\* EnvVar.getValue under the environment e (string variant).
getValueIn(e, ev) ==
    IF ~Has(e[ev.Key]) THEN <<>>
    ELSE LET v == TrimSpace(Val(e[ev.Key]))
         IN IF ev.Transform # "nil" THEN ApplyTransform(ev.Transform, v) ELSE v

\* --------------------------------------------------------------- parsers
\* Definition.Parse func(string) (T, error): nil, ToString, and a parser
\* that accepts a single value, which it rewrites, and rejects every other
\* with an error (returning "" with the error).
Parsers == {"nil", "ToString", "strict"}

ApplyParse(f, v) ==
    CASE f = "ToString" -> [val |-> v, err |-> FALSE]
      [] f = "strict" -> IF v = <<"b">> THEN [val |-> <<"o", "k">>, err |-> FALSE]
                         ELSE [val |-> <<>>, err |-> TRUE]
      [] OTHER -> [val |-> <<>>, err |-> TRUE]

\* ----------------------------------------------------------- definitions
\* An EnvVar is a key with a transform; the sources of a Definition are a
\* list of EnvVars over distinct keys, in order of precedence.
EnvVars == [Key : Keys, Transform : Transforms]

RECURSIVE EnvVarLists(_)
EnvVarLists(n) ==
    IF n = 0 THEN {<<>>}
    ELSE LET S == EnvVarLists(n - 1)
         IN S \cup {Append(l, ev) : l \in {m \in S : Len(m) = n - 1},
                                    ev \in EnvVars}

DistinctKeys(l) == \A i, j \in 1..Len(l) : i # j => l[i].Key # l[j].Key

\* Definition[string]{Default, Origins, EnvVars, Parse}
Definitions ==
    {[Default |-> <<"d">>, Origins |-> o, EnvVars |-> l, Parse |-> f] :
        o \in {{}, {Custom}},
        l \in {m \in EnvVarLists(Cardinality(Keys)) : DistinctKeys(m)},
        f \in Parsers}

\* firstValue without the break: the last source that yields a value wins.
RECURSIVE firstValueNoBreak(_, _, _)
firstValueNoBreak(e, l, i) ==
    IF i > Len(l) THEN <<>>
    ELSE LET v == getValueIn(e, l[i])
             w == firstValueNoBreak(e, l, i + 1)
         IN IF w # <<>> THEN w ELSE v

\* firstValue giving up at the first source that is set, whatever it yields.
RECURSIVE firstValueOfFirstSet(_, _, _)
firstValueOfFirstSet(e, l, i) ==
    IF i > Len(l) THEN <<>>
    ELSE IF Has(e[l[i].Key]) THEN getValueIn(e, l[i])
    ELSE firstValueOfFirstSet(e, l, i + 1)

\* The loop of Definition.initializer over def.EnvVars: the value of the
\* first source whose getValue is not "", or "" when there is none.
RECURSIVE firstValue(_, _, _)
firstValue(e, l, i) ==
    IF i > Len(l) THEN <<>>
    ELSE LET v == getValueIn(e, l[i])
         IN IF v # <<>> THEN v ELSE firstValue(e, l, i + 1)

\* parseInto keeping what Parse returned whether or not it failed.
parseIntoAnyway(def, v, s) ==
    LET s1 == [s EXCEPT !.origin = Env]
    IN IF def.Parse = "nil" THEN s1
       ELSE [s1 EXCEPT !.current = Some(ApplyParse(def.Parse, v).val)]

\* What Definition.initializer does with the value it read, once it is
\* known not to be "": the origin becomes Env, and Parse decides the value.
parseInto(def, v, s) ==
    LET s1 == [s EXCEPT !.origin = Env]
    IN IF def.Parse = "nil" THEN s1
       ELSE LET r == ApplyParse(def.Parse, v)
            IN IF ~r.err THEN [s1 EXCEPT !.current = Some(r.val)] ELSE s1

\* Definition.initializer(s) under the environment e.
initializer(e, def, s) ==
    LET s0 == [s EXCEPT !.current = Some(def.Default)]
        v == firstValue(e, def.EnvVars, 1)
    IN IF v = <<>> THEN s0 ELSE parseInto(def, v, s0)

\* The registry's definition built by Register: the default, the set of
\* origins, and the initializer bound to the caller's Definition.
NewDefinition(def) ==
    [def |-> def.Default, init |-> def, origins |-> def.Origins]

\* &state{definition: d} and &state{parent: k}: the zero value of the
\* other fields (current nil, origin Default, locks free, once unused).
NewState(d, parent) ==
    [definition |-> d, once |-> FALSE, current |-> None, origin |-> Default,
     parent |-> parent, w |-> 0, r |-> {}]

\* state.init: a derived knob has no definition and nothing to run; the
\* once lets the initializer run a single time on this state.
RunsInitializer(s) == Has(s.definition) /\ ~s.once

init(e, s) ==
    IF ~Has(s.definition) THEN s
    ELSE IF s.once THEN s
    ELSE [initializer(e, Val(s.definition).init, s) EXCEPT !.once = TRUE]

\* ------------------------------------------- the registry of states
\* The earlier version of the package keeps one state per knob in the
\* registry itself; its EnvVar[T] transform answers (T, bool) and its
\* Definition has no Parse.  T is string here.
ApplyTransformB(t, v) ==
    CASE t = "mapping" -> IF v = <<"a">> THEN [val |-> <<"b">>, ok |-> TRUE]
                          ELSE [val |-> <<>>, ok |-> FALSE]
      [] t = "constant" -> [val |-> <<"b", "b">>, ok |-> TRUE]
      [] OTHER -> [val |-> v, ok |-> TRUE]

\* EnvVar[T].getValue under the environment e.
legacyGetValue(e, ev) ==
    IF ~Has(e[ev.Key]) THEN [val |-> <<>>, ok |-> FALSE]
    ELSE IF ev.Transform # "nil" THEN ApplyTransformB(ev.Transform, Val(e[ev.Key]))
    ELSE [val |-> Val(e[ev.Key]), ok |-> TRUE]

\* Definition.initializer(s) of that version, from source i on: the first
\* source whose getValue is ok gives the value, with origin Env; the
\* default is the value when there is none.
RECURSIVE legacyInitializerFrom(_, _, _, _)
legacyInitializerFrom(e, def, s, i) ==
    IF i > Len(def.EnvVars) THEN [s EXCEPT !.current = Some(def.Default)]
    ELSE LET g == legacyGetValue(e, def.EnvVars[i])
         IN IF g.ok THEN [s EXCEPT !.origin = Env, !.current = Some(g.val)]
            ELSE legacyInitializerFrom(e, def, s, i + 1)

legacyInitializer(e, def, s) == legacyInitializerFrom(e, def, s, 1)

\* &state{initialize: def.initializer, origins: origins} of Register.
legacyNewState(def) ==
    [once |-> FALSE, current |-> None, initialize |-> Some(def),
     origins |-> def.Origins, origin |-> Default, parent |-> 0]

\* The body of Set on state s of that version: the origin check and the
\* two assignments.
legacyWritten(s, origin, value) ==
    IF origin # Code /\ origin \notin s.origins THEN s
    ELSE [s EXCEPT !.origin = origin, !.current = Some(value)]

\* legacyResolved running the initializer on every Get.
legacyResolvedAlways(e, s) ==
    IF Has(s.initialize)
    THEN [legacyInitializer(e, Val(s.initialize), s) EXCEPT !.once = TRUE]
    ELSE s

\* legacyResolved looking at once before it looks at current.
legacyResolvedOnceFirst(e, s) ==
    IF Has(s.initialize) /\ ~s.once
    THEN [legacyInitializer(e, Val(s.initialize), s) EXCEPT !.once = TRUE]
    ELSE s

\* The body of Get on state s, up to the recursion to the parent: the
\* value is returned when there is one, and the initializer runs once
\* when there is none.
legacyResolved(e, s) ==
    IF Has(s.current) THEN s
    ELSE IF Has(s.initialize) /\ ~s.once
    THEN [legacyInitializer(e, Val(s.initialize), s) EXCEPT !.once = TRUE]
    ELSE s

\* ------------------------------------------------------------------ state
VARIABLES
    env,        \* the process environment: key -> optional raw value
    counter,    \* atomic.Int32: the last identifier handed out
    registry,   \* map[int]*definition: id -> optional definition
    issued,     \* the handles Register and DeriveScope have returned
    states,     \* Scope.states: scope -> id -> index into objs (0: no entry)
    objs,       \* the state objects ever allocated for (scope, id)
    scLock,     \* Scope.RWMutex: the goroutine holding it (0: free)
    pc,         \* where each goroutine is in its call
    call,       \* the call each goroutine is in
    cur,        \* the id the goroutine's Scope.get is looking up
    sptr,       \* the *state Scope.get returned to the goroutine
    ret,        \* what the goroutine's call returned
    initCount,  \* how often an initializer has run for (scope, id)
    legacy,     \* the registry of states of the package's earlier version
    budget,     \* the calls the goroutines may still make in this run
    crashed,    \* a goroutine panicked: the process is gone
    defMux,     \* defMux: the goroutine holding it (0: free)
    defScope,   \* defScope: the default scope (0: nil)
    made,       \* how many Scopes DefaultScope has created
    zeroScopes, \* the scopes the caller built as Scope{}: their states map is nil
    gone        \* the ids deleteState has removed from the earlier version's
                \* registry; a goroutine that holds the state goes on using it

\* The package's default scope and the scopes that exist.
scopeVars == <<defMux, defScope, made, zeroScopes>>

vars == <<env, counter, registry, issued, states, objs, scLock, pc, call, cur,
          sptr, ret, initCount, legacy, budget, crashed, scopeVars, gone>>

\* The values goroutines write with SetScope, and the origins they name:
\* the three of the package and one a Definition may declare.
SetValues == {<<"x">>, <<"y">>}
SetOrigins == {Default, Env, Code, Custom}

\* The Definitions the program registers under Spec.
Catalog ==
    {[Default |-> <<"d">>, Origins |-> o,
      EnvVars |-> <<[Key |-> "A", Transform |-> "nil"]>>, Parse |-> "ToString"] :
        o \in {{}, {Custom}}}

\* The zero value of T (string).
Zero == <<>>

NoCall == [op |-> "none", sc |-> 0, kn |-> 0, origin |-> Default,
           value |-> <<>>, parent |-> 0, def |-> None]
NilPtr == [sc |-> 0, kn |-> 0, idx |-> 0]
NoRet == [kind |-> "none", val |-> <<>>]
Value(v) == [kind |-> "value", val |-> v]
Void == [kind |-> "void", val |-> <<>>]
Panic == [kind |-> "panic", val |-> <<>>]

Obj(ptr) == objs[ptr.sc][ptr.kn][ptr.idx]

InitCommon ==
    /\ states = [sc \in Scopes |-> [k \in KnobIds |-> 0]]
    /\ objs = [sc \in Scopes |-> [k \in KnobIds |-> <<>>]]
    /\ scLock = [sc \in Scopes |-> 0]
    /\ pc = [p \in Procs |-> "idle"]
    /\ call = [p \in Procs |-> NoCall]
    /\ cur = [p \in Procs |-> 0]
    /\ sptr = [p \in Procs |-> NilPtr]
    /\ ret = [p \in Procs |-> NoRet]
    /\ initCount = [sc \in Scopes |-> [k \in KnobIds |-> 0]]
    /\ crashed = FALSE

\* Every scope of the model was created by DefaultScope, with its states
\* map, and the first of them is the default scope.
ScopesMade ==
    /\ defMux = 0 /\ defScope = 1 /\ made = NumScopes /\ zeroScopes = {}

\* No entry has been removed from the earlier version's registry.
NoneGone == gone = {}

\* The earlier version's registry: empty, and after its Register(d).
LegacyEmpty == [k \in KnobIds |-> None]
LegacyRegistered(d) == [k \in KnobIds |-> IF k = 1 THEN Some(legacyNewState(d)) ELSE None]

\* The program after its first Register(d), d of the catalog.
Registered(d) ==
    /\ counter = 1
    /\ registry = [k \in KnobIds |-> IF k = 1 THEN Some(NewDefinition(d)) ELSE None]
    /\ issued = {1}

EnvUnset == [k \in Keys |-> None]
EnvSet == [k \in Keys |-> IF k = "A" THEN Some(<<"a">>) ELSE None]

\* Concurrent goroutines, in an environment where the catalog's variable
\* is set.
Init ==
    /\ env = EnvSet
    /\ \E d \in Catalog : Registered(d)
    /\ legacy = LegacyEmpty
    /\ budget = MaxCalls
    /\ InitCommon /\ ScopesMade /\ NoneGone

\* A single goroutine, in an environment where the catalog's variable is
\* unset or set.
SeqInit ==
    /\ env \in {EnvUnset, EnvSet}
    /\ \E d \in Catalog : Registered(d)
    /\ legacy = LegacyEmpty
    /\ budget = MaxSeqCalls
    /\ InitCommon /\ ScopesMade /\ NoneGone

\* A single goroutine and one knob, registered with any Definition in
\* either version of the package, in any environment.
ResolveInit ==
    /\ env \in [Keys -> {None} \cup {Some(v) : v \in RawValues}]
    /\ \E d \in Definitions :
        d.Origins = {} /\ Registered(d) /\ legacy = LegacyRegistered(d)
    /\ budget = MaxCalls
    /\ InitCommon /\ ScopesMade /\ NoneGone

\* The values the program gives its variables while it runs: one that
\* every parser of EnvCatalog but the strict one accepts, and blanks.
EnvValues == {<<"a">>, <<" ">>}

\* Definitions with one and with two sources, parsed by ToString or by the
\* strict parser.
EnvCatalog ==
    {[Default |-> <<"d">>, Origins |-> {}, EnvVars |-> l, Parse |-> f] :
        l \in {<<[Key |-> "A", Transform |-> "nil"]>>,
               <<[Key |-> "A", Transform |-> "nil"],
                 [Key |-> "B", Transform |-> "mapping"]>>},
        f \in {"ToString", "strict"}}

\* A single goroutine and one knob, registered in either version of the
\* package, in an environment the goroutine goes on to change.
EnvInit ==
    /\ env \in [Keys -> {None, Some(<<"a">>)}]
    /\ \E d \in EnvCatalog : Registered(d) /\ legacy = LegacyRegistered(d)
    /\ budget = MaxEnvCalls
    /\ InitCommon /\ ScopesMade /\ NoneGone

\* sc.states is nil: reading it finds nothing, assigning to it panics.
MapIsNil(sc) == sc \in zeroScopes

\* A goroutine may start a call.
MayCall(p) == ~crashed /\ pc[p] = "idle" /\ budget > 0

\* The goroutine is back from its call.
Returned(p) ==
    /\ pc' = [pc EXCEPT ![p] = "idle"]
    /\ call' = [call EXCEPT ![p] = NoCall]
    /\ cur' = [cur EXCEPT ![p] = 0]
    /\ sptr' = [sptr EXCEPT ![p] = NilPtr]

\* ----------------------------------------------------------------- locks
\* A scope lock that never makes a goroutine wait.
CanLockScopeAlways(sc) == TRUE

\* sc.Lock() succeeds when no goroutine holds the scope's lock.
CanLockScope(sc) == scLock[sc] = 0

\* A read lock that writers do not hold up.
CanRLockAlways(s) == TRUE

\* s.RLock() succeeds when no writer holds the state's lock.
CanRLock(s) == s.w = 0

\* A state lock that never makes a writer wait.
CanLockAlways(s) == TRUE

\* s.Lock() succeeds when nobody holds the state's lock.
CanLock(s) == s.w = 0 /\ s.r = {}

\* A GetScope that returns without its deferred RUnlocks.
RUnlockNone(p, sc) == objs

\* The deferred RUnlocks of goroutine p's GetScope frames in scope sc.
RUnlockAll(p, sc) ==
    [objs EXCEPT ![sc] =
        [k \in KnobIds |->
            [i \in 1..Len(objs[sc][k]) |->
                [objs[sc][k][i] EXCEPT !.r = @ \ {p}]]]]

\* -------------------------------------------------------------- Register
\* A counter that hands out the value it holds.
counterAddStuck(c) == c

\* counter.Add(1): the new value, which is the identifier.
counterAdd(c) == c + 1

\* counter.Add(1) and the building of the definition.
RegisterAdd(p) ==
    /\ MayCall(p) /\ counter < MaxKnobs
    /\ \E d \in Catalog :
        call' = [call EXCEPT ![p] =
                    [NoCall EXCEPT !.op = "Register", !.kn = counterAdd(counter),
                                   !.def = Some(d)]]
    /\ counter' = counterAdd(counter)
    /\ budget' = budget - 1
    /\ pc' = [pc EXCEPT ![p] = "reg_store"]
    /\ UNCHANGED <<legacy, env, registry, issued, states, objs, scLock, cur, sptr, ret,
                   initCount, crashed>>
    /\ UNCHANGED <<scopeVars, gone>>

\* regMux.Lock(); registry[k] = d; unlock; return Knob[T](k).
RegisterStore(p) ==
    /\ ~crashed /\ pc[p] = "reg_store"
    /\ registry' = [registry EXCEPT ![call[p].kn] =
                        Some(NewDefinition(Val(call[p].def)))]
    /\ issued' = issued \cup {call[p].kn}
    /\ Returned(p)
    /\ UNCHANGED <<legacy, env, counter, states, objs, scLock, ret, initCount, budget,
                   crashed>>
    /\ UNCHANGED <<scopeVars, gone>>

\* ----------------------------------------------------------- DeriveScope
\* counter.Add(1) and the building of the derived state.
DeriveScopeAdd(p, sc) ==
    /\ MayCall(p) /\ counter < MaxKnobs
    /\ \E parent \in issued :
        call' = [call EXCEPT ![p] =
                    [NoCall EXCEPT !.op = "DeriveScope", !.sc = sc,
                                   !.kn = counterAdd(counter), !.parent = parent]]
    /\ counter' = counterAdd(counter)
    /\ budget' = budget - 1
    /\ pc' = [pc EXCEPT ![p] = "der_set"]
    /\ UNCHANGED <<legacy, env, registry, issued, states, objs, scLock, cur, sptr, ret,
                   initCount, crashed>>
    /\ UNCHANGED <<scopeVars, gone>>

\* A derived state that names itself as its parent.
DerivedStateSelf(parent, dk) == NewState(None, dk)

\* &state{parent: int(parent)}, the state of the derived knob dk.
DerivedState(parent, dk) == NewState(None, parent)

\* sc.set(dk, s): sc.Lock(); sc.states[dk] = s; unlock; return Knob[T](dk).
\* The assignment panics when the scope's map is nil.
DeriveScopeSet(p) ==
    /\ ~crashed /\ pc[p] = "der_set"
    /\ LET sc == call[p].sc
           dk == call[p].kn
       IN /\ CanLockScope(sc)
          /\ IF MapIsNil(sc)
             THEN /\ crashed' = TRUE
                  /\ ret' = [ret EXCEPT ![p] = Panic]
                  /\ pc' = [pc EXCEPT ![p] = "done"]
                  /\ UNCHANGED <<objs, states, issued, call, cur, sptr>>
             ELSE /\ objs' = [objs EXCEPT ![sc][dk] =
                                Append(@, DerivedState(call[p].parent, dk))]
                  /\ states' = [states EXCEPT ![sc][dk] = Len(objs[sc][dk]) + 1]
                  /\ issued' = issued \cup {dk}
                  /\ Returned(p)
                  /\ UNCHANGED <<ret, crashed>>
    /\ UNCHANGED <<legacy, env, counter, registry, scLock, initCount, budget>>
    /\ UNCHANGED <<scopeVars, gone>>

\* ------------------------------------------------------------- Scope.get
\* scopeOf with SetScope going to the first scope whatever scope it is given.
scopeOfShared(c) == IF c.op = "SetScope" THEN 1 ELSE c.sc

\* The scope on which GetScope(sc, ...) and SetScope(sc, ...) call get.
scopeOf(c) == c.sc

\* A lookup that finds nothing, whatever the table holds.
FoundNever(sc, kn) == FALSE

\* s, ok := sc.states[kn]: ok.
Found(sc, kn) == states[sc][kn] # 0

\* Where the caller of Scope.get goes on: GetScope read-locks the state,
\* SetScope locks it.
AfterGet(p) == IF call[p].op = "GetScope" THEN "st_rlock" ELSE "st_lock"

\* sc.Lock(); s, ok := sc.states[kn]; if ok { return s }
ScopeGetLookup(p) ==
    /\ ~crashed /\ pc[p] = "sc_get"
    /\ LET sc == scopeOf(call[p])
           kn == cur[p]
       IN /\ CanLockScope(sc)
          /\ IF Found(sc, kn)
             THEN /\ sptr' = [sptr EXCEPT ![p] =
                                [sc |-> sc, kn |-> kn, idx |-> states[sc][kn]]]
                  /\ pc' = [pc EXCEPT ![p] = AfterGet(p)]
                  /\ UNCHANGED scLock
             ELSE /\ scLock' = [scLock EXCEPT ![sc] = p]
                  /\ pc' = [pc EXCEPT ![p] = "sc_create"]
                  /\ UNCHANGED sptr
    /\ UNCHANGED <<legacy, env, counter, registry, issued, states, objs, call, cur, ret,
                   initCount, budget, crashed>>
    /\ UNCHANGED <<scopeVars, gone>>

\* regMux.RLock(); s = &state{definition: registry[kn]}; s.init();
\* sc.states[kn] = s; unlock both; return s.  The assignment panics when
\* the scope's map is nil, after the initializer has run.
ScopeGetCreate(p) ==
    /\ ~crashed /\ pc[p] = "sc_create"
    /\ LET sc == scopeOf(call[p])
           kn == cur[p]
           s0 == NewState(registry[kn], 0)
           idx == Len(objs[sc][kn]) + 1
       IN /\ initCount' = [initCount EXCEPT ![sc][kn] =
                             IF RunsInitializer(s0) THEN @ + 1 ELSE @]
          /\ scLock' = [scLock EXCEPT ![sc] = 0]
          /\ IF MapIsNil(sc)
             THEN /\ crashed' = TRUE
                  /\ ret' = [ret EXCEPT ![p] = Panic]
                  /\ pc' = [pc EXCEPT ![p] = "done"]
                  /\ UNCHANGED <<objs, states, sptr>>
             ELSE /\ objs' = [objs EXCEPT ![sc][kn] = Append(@, init(env, s0))]
                  /\ states' = [states EXCEPT ![sc][kn] = idx]
                  /\ sptr' = [sptr EXCEPT ![p] = [sc |-> sc, kn |-> kn, idx |-> idx]]
                  /\ pc' = [pc EXCEPT ![p] = AfterGet(p)]
                  /\ UNCHANGED <<ret, crashed>>
    /\ UNCHANGED <<legacy, env, counter, registry, issued, call, cur, budget>>
    /\ UNCHANGED <<scopeVars, gone>>

\* -------------------------------------------------------------- GetScope
\* GetScope(sc, kn) on a handle the program holds: k := int(kn); sc.get(k).
CallGetScope(p, sc, kn) ==
    /\ MayCall(p)
    /\ kn \in issued
    /\ call' = [call EXCEPT ![p] =
                    [NoCall EXCEPT !.op = "GetScope", !.sc = sc, !.kn = kn]]
    /\ cur' = [cur EXCEPT ![p] = kn]
    /\ budget' = budget - 1
    /\ pc' = [pc EXCEPT ![p] = "sc_get"]
    /\ UNCHANGED <<legacy, env, counter, registry, issued, states, objs, scLock, sptr,
                   ret, initCount, crashed>>
    /\ UNCHANGED <<scopeVars, gone>>

\* ReadOutcome that never goes to the parent.
ReadOutcomeOwnOnly(s) ==
    IF Has(s.current) THEN Value(Val(s.current)) ELSE Panic

\* ReadOutcome that goes to the parent whenever there is one.
ReadOutcomeParentFirst(s) ==
    IF s.parent > 0 THEN [kind |-> "parent", val |-> <<s.parent>>]
    ELSE IF Has(s.current) THEN Value(Val(s.current))
    ELSE Panic

\* ReadOutcome that goes from a derived knob straight to the first knob.
ReadOutcomeRootOnly(s) ==
    IF Has(s.current) THEN Value(Val(s.current))
    ELSE IF s.parent > 0 THEN [kind |-> "parent", val |-> <<1>>]
    ELSE Panic

\* What GetScope does with the state s it holds read-locked: return the
\* state's own value, recurse to the parent, or assert the nil value to T.
ReadOutcome(s) ==
    IF Has(s.current) THEN Value(Val(s.current))
    ELSE IF s.parent > 0 THEN [kind |-> "parent", val |-> <<s.parent>>]
    ELSE Panic

\* s.RLock(); defer s.RUnlock(); and the body of GetScope.
GetScopeRead(p) ==
    /\ ~crashed /\ pc[p] = "st_rlock"
    /\ CanRLock(Obj(sptr[p]))
    /\ LET out == ReadOutcome(Obj(sptr[p]))
       IN IF out.kind = "parent"
          THEN /\ objs' = [objs EXCEPT
                            ![sptr[p].sc][sptr[p].kn][sptr[p].idx].r = @ \cup {p}]
               /\ cur' = [cur EXCEPT ![p] = out.val[1]]
               /\ pc' = [pc EXCEPT ![p] = "sc_get"]
               /\ UNCHANGED <<ret, crashed>>
          ELSE /\ ret' = [ret EXCEPT ![p] = out]
               /\ objs' = RUnlockAll(p, sptr[p].sc)
               /\ crashed' = (out.kind = "panic")
               /\ pc' = [pc EXCEPT ![p] = "done"]
               /\ UNCHANGED cur
    /\ UNCHANGED <<legacy, env, counter, registry, issued, states, scLock, call, sptr,
                   initCount, budget>>
    /\ UNCHANGED <<scopeVars, gone>>

\* The caller has the call's result and goes on.
Return(p) ==
    /\ ~crashed /\ pc[p] = "done"
    /\ Returned(p)
    /\ ret' = [ret EXCEPT ![p] = NoRet]
    /\ UNCHANGED <<legacy, env, counter, registry, issued, states, objs, scLock,
                   initCount, budget, crashed>>
    /\ UNCHANGED <<scopeVars, gone>>

\* -------------------------------------------------------------- SetScope
\* SetScope(sc, kn, origin, value) on a handle the program holds.
CallSetScope(p, sc, kn, origin, value) ==
    /\ MayCall(p)
    /\ kn \in issued
    /\ call' = [call EXCEPT ![p] =
                    [NoCall EXCEPT !.op = "SetScope", !.sc = sc, !.kn = kn,
                                   !.origin = origin, !.value = value]]
    /\ cur' = [cur EXCEPT ![p] = kn]
    /\ budget' = budget - 1
    /\ pc' = [pc EXCEPT ![p] = "sc_get"]
    /\ UNCHANGED <<legacy, env, counter, registry, issued, states, objs, scLock, sptr,
                   ret, initCount, crashed>>
    /\ UNCHANGED <<scopeVars, gone>>

\* OriginCheck that lets nothing but Code through.
OriginCheckCodeOnly(s, origin) ==
    IF origin = Code THEN "write"
    ELSE IF ~Has(s.definition) THEN "panic"
    ELSE "return"

\* OriginCheck without the exemption of Code.
OriginCheckDeclaredOnly(s, origin) ==
    IF ~Has(s.definition) THEN "panic"
    ELSE IF origin \in Val(s.definition).origins THEN "write"
    ELSE "return"

\* OriginCheck letting Default and Env through as it lets Code.
OriginCheckImplicit(s, origin) ==
    IF origin \in {Default, Env, Code} THEN "write"
    ELSE IF ~Has(s.definition) THEN "panic"
    ELSE IF origin \in Val(s.definition).origins THEN "write"
    ELSE "return"

\* The origin check of SetScope on state s: s.origins is the field of the
\* embedded *definition, which is nil for a state that has no definition.
OriginCheck(s, origin) ==
    IF origin = Code THEN "write"
    ELSE IF ~Has(s.definition) THEN "panic"
    ELSE IF origin \in Val(s.definition).origins THEN "write"
    ELSE "return"

\* s.Lock(); defer s.Unlock(); the origin check; s.origin = origin.
SetScopeOrigin(p) ==
    /\ ~crashed /\ pc[p] = "st_lock"
    /\ CanLock(Obj(sptr[p]))
    /\ LET chk == OriginCheck(Obj(sptr[p]), call[p].origin)
       IN IF chk = "write"
          THEN /\ objs' = [objs EXCEPT ![sptr[p].sc][sptr[p].kn][sptr[p].idx] =
                            [@ EXCEPT !.w = p, !.origin = call[p].origin]]
               /\ pc' = [pc EXCEPT ![p] = "st_current"]
               /\ UNCHANGED <<call, cur, sptr, ret, crashed>>
          ELSE /\ crashed' = (chk = "panic")
               /\ ret' = [ret EXCEPT ![p] = IF chk = "panic" THEN Panic ELSE Void]
               /\ pc' = [pc EXCEPT ![p] = "done"]
               /\ UNCHANGED <<objs, call, cur, sptr>>
    /\ UNCHANGED <<legacy, env, counter, registry, issued, states, scLock,
                   initCount, budget>>
    /\ UNCHANGED <<scopeVars, gone>>

\* A store that goes through to the state of the parent as well, when the
\* scope has one.
StoreCurrentThrough(p) ==
    LET sc == sptr[p].sc
        par == Obj(sptr[p]).parent
    IN [objs EXCEPT ![sc] =
            [k \in KnobIds |->
                IF k = sptr[p].kn
                THEN [objs[sc][k] EXCEPT ![sptr[p].idx] =
                        [@ EXCEPT !.w = 0, !.current = Some(call[p].value)]]
                ELSE IF k = par /\ states[sc][k] # 0
                THEN [objs[sc][k] EXCEPT ![states[sc][k]] =
                        [@ EXCEPT !.current = Some(call[p].value)]]
                ELSE objs[sc][k]]]

\* The states after s.current = value, s being the state SetScope holds
\* locked, and after the deferred s.Unlock().
StoreCurrent(p) ==
    [objs EXCEPT ![sptr[p].sc][sptr[p].kn][sptr[p].idx] =
        [@ EXCEPT !.w = 0, !.current = Some(call[p].value)]]

\* s.current = value; and the deferred s.Unlock().
SetScopeCurrent(p) ==
    /\ ~crashed /\ pc[p] = "st_current"
    /\ objs' = StoreCurrent(p)
    /\ ret' = [ret EXCEPT ![p] = Void]
    /\ pc' = [pc EXCEPT ![p] = "done"]
    /\ UNCHANGED <<legacy, env, counter, registry, issued, states, scLock, call,
                   cur, sptr, initCount, budget, crashed>>
    /\ UNCHANGED <<scopeVars, gone>>

\* ------------------------------------------ Get on the registry of states
\* registry[kn] is there: getState(kn) != nil.
InRegistry(kn) == Has(legacy[kn]) /\ kn \notin gone

\* The goroutines that hold the read lock of knob kn's state.
RLockHolders(kn) ==
    {q \in Procs : pc[q] \in {"lg_once", "lg_init", "lg_ret"} /\ cur[q] = kn}

\* The goroutines that are inside once.Do's function on knob kn's state.
Initializing(kn) == {q \in Procs : pc[q] = "lg_init" /\ cur[q] = kn}

\* Get(kn) of the earlier version, on a knob it has registered: getState,
\* s.RLock(), and the body of Get.
LegacyGet(p, kn) ==
    /\ MayCall(p)
    /\ InRegistry(kn)
    /\ LET s == legacyResolved(env, Val(legacy[kn]))
       IN /\ legacy' = [legacy EXCEPT ![kn] = Some(s)]
          /\ ret' = [ret EXCEPT ![p] =
                        IF Has(s.current) THEN Value(Val(s.current)) ELSE Panic]
          /\ crashed' = ~Has(s.current)
    /\ call' = [call EXCEPT ![p] = [NoCall EXCEPT !.op = "Get", !.kn = kn]]
    /\ budget' = budget - 1
    /\ pc' = [pc EXCEPT ![p] = "done"]
    /\ UNCHANGED <<env, counter, registry, issued, states, objs, scLock, cur,
                   sptr, initCount>>
    /\ UNCHANGED <<scopeVars, gone>>

\* Set(kn, value, origin) of the earlier version: getState, the return
\* when there is no state, s.Lock(), which waits for the readers, and the
\* body of Set.
LegacySet(p, kn, origin, value) ==
    /\ MayCall(p)
    /\ IF InRegistry(kn)
       THEN /\ RLockHolders(kn) = {}
            /\ legacy' = [legacy EXCEPT
                            ![kn] = Some(legacyWritten(Val(@), origin, value))]
       ELSE UNCHANGED legacy
    /\ call' = [call EXCEPT ![p] =
                    [NoCall EXCEPT !.op = "Set", !.kn = kn, !.origin = origin,
                                   !.value = value]]
    /\ ret' = [ret EXCEPT ![p] = Void]
    /\ budget' = budget - 1
    /\ pc' = [pc EXCEPT ![p] = "done"]
    /\ UNCHANGED <<env, counter, registry, issued, states, objs, scLock, cur,
                   sptr, initCount, crashed>>
    /\ UNCHANGED <<scopeVars, gone>>

\* ------------------------------------------------------ the environment
\* os.Setenv(k, v) and os.Unsetenv(k) between two calls of goroutine p.
Setenv(p) ==
    /\ ~crashed /\ pc[p] = "idle"
    /\ \E k \in Keys, v \in {None} \cup {Some(x) : x \in EnvValues} :
        /\ env[k] # v
        /\ env' = [env EXCEPT ![k] = v]
    /\ UNCHANGED <<counter, registry, issued, states, objs, scLock, pc, call, cur,
                   sptr, ret, initCount, legacy, budget, crashed>>
    /\ UNCHANGED <<scopeVars, gone>>

\* ----------------------------------------------------- the default scope
\* The scopes the program can name: those DefaultScope has created and
\* those it built itself.
HeldScopes == (1..made) \cup zeroScopes

\* The next Scope DefaultScope allocates.
NewScope == made + 1

\* What DefaultScope returns.
ScopeRet(sc) == [kind |-> "scope", val |-> <<sc>>]

\* A defMux that never makes a goroutine wait.
CanLockDefAlways == TRUE

\* defMux.Lock() may go on.
CanLockDef == defMux = 0

\* The goroutine enters DefaultScope: defMux.Lock().
EnterDefaultScope(p) ==
    /\ MayCall(p)
    /\ CanLockDef
    /\ defScope # 0 \/ NewScope \in Scopes \ zeroScopes
    /\ defMux' = p
    /\ budget' = budget - 1
    /\ pc' = [pc EXCEPT ![p] = "ds_check"]
    /\ UNCHANGED <<legacy, env, counter, registry, issued, states, objs, scLock, sptr,
                   ret, initCount, crashed, defScope, made, zeroScopes, gone>>

\* DefaultScope().
CallDefaultScope(p) ==
    /\ EnterDefaultScope(p)
    /\ call' = [call EXCEPT ![p] = [NoCall EXCEPT !.op = "DefaultScope"]]
    /\ UNCHANGED cur

\* Get(kn): GetScope(DefaultScope(), kn).
CallGet(p, kn) ==
    /\ kn \in issued
    /\ EnterDefaultScope(p)
    /\ call' = [call EXCEPT ![p] = [NoCall EXCEPT !.op = "GetScope", !.kn = kn]]
    /\ cur' = [cur EXCEPT ![p] = kn]

\* Set(kn, origin, value): SetScope(DefaultScope(), kn, origin, value).
CallSet(p, kn, origin, value) ==
    /\ kn \in issued
    /\ EnterDefaultScope(p)
    /\ call' = [call EXCEPT ![p] =
                    [NoCall EXCEPT !.op = "SetScope", !.kn = kn,
                                   !.origin = origin, !.value = value]]
    /\ cur' = [cur EXCEPT ![p] = kn]

\* DefaultScope returns sc and unlocks defMux: to the caller, or to the
\* Get or Set that goes on in that scope.
DefaultScopeReturn(p, sc) ==
    /\ defMux' = 0
    /\ IF call[p].op = "DefaultScope"
       THEN /\ ret' = [ret EXCEPT ![p] = ScopeRet(sc)]
            /\ pc' = [pc EXCEPT ![p] = "done"]
            /\ UNCHANGED call
       ELSE /\ call' = [call EXCEPT ![p].sc = sc]
            /\ pc' = [pc EXCEPT ![p] = "sc_get"]
            /\ UNCHANGED ret

\* if defScope != nil { return defScope }
DefaultScopeCheck(p) ==
    /\ ~crashed /\ pc[p] = "ds_check"
    /\ IF defScope # 0
       THEN DefaultScopeReturn(p, defScope)
       ELSE /\ pc' = [pc EXCEPT ![p] = "ds_new"]
            /\ UNCHANGED <<defMux, ret, call>>
    /\ UNCHANGED <<legacy, env, counter, registry, issued, states, objs, scLock, cur,
                   sptr, initCount, budget, crashed, defScope, made, zeroScopes, gone>>

\* defScope = &Scope{states: make(map[int]*state)}; return defScope.
DefaultScopeNew(p) ==
    /\ ~crashed /\ pc[p] = "ds_new"
    /\ NewScope \in Scopes \ zeroScopes
    /\ defScope' = NewScope
    /\ made' = made + 1
    /\ DefaultScopeReturn(p, NewScope)
    /\ UNCHANGED <<legacy, env, counter, registry, issued, states, objs, scLock, cur,
                   sptr, initCount, budget, crashed, zeroScopes, gone>>

\* SetDefaultScope(sc), with a scope the program holds or nil:
\* defMux.Lock(); defScope = sc; unlock.
SetDefaultScope(p, sc) ==
    /\ MayCall(p)
    /\ sc \in HeldScopes \cup {0}
    /\ CanLockDef
    /\ defScope' = sc
    /\ call' = [call EXCEPT ![p] = [NoCall EXCEPT !.op = "SetDefaultScope", !.sc = sc]]
    /\ ret' = [ret EXCEPT ![p] = Void]
    /\ budget' = budget - 1
    /\ pc' = [pc EXCEPT ![p] = "done"]
    /\ UNCHANGED <<legacy, env, counter, registry, issued, states, objs, scLock, cur,
                   sptr, initCount, crashed, defMux, made, zeroScopes, gone>>

\* ------------------------------------------- the caller's Definition
\* The Definition the program registers under MutateSpec, and what it may
\* write to the struct's fields afterwards.
MutBase ==
    [Default |-> <<"d">>, Origins |-> {},
     EnvVars |-> <<[Key |-> "A", Transform |-> "nil"]>>, Parse |-> "ToString"]
MutTargets ==
    {[MutBase EXCEPT !.Default = dv, !.EnvVars = l, !.Parse = f] :
        dv \in {<<"d">>, <<"z">>},
        l \in {<<[Key |-> "A", Transform |-> "nil"]>>,
               <<[Key |-> "B", Transform |-> "nil"]>>},
        f \in {"ToString", "strict"}}

\* The caller assigns to fields of the Definition it passed to Register.
\* definition.init is the method value def.initializer, bound to the
\* caller's pointer: it reads the struct as it is when it runs.  def and
\* origins are copies made by Register.
MutateDefinition(p, kn) ==
    /\ ~crashed /\ pc[p] = "idle"
    /\ Has(registry[kn])
    /\ \E nd \in MutTargets :
        /\ nd # Val(registry[kn]).init
        /\ registry' = [registry EXCEPT ![kn] = Some([Val(@) EXCEPT !.init = nd])]
    /\ UNCHANGED <<env, counter, issued, states, objs, scLock, pc, call, cur,
                   sptr, ret, initCount, legacy, budget, crashed>>
    /\ UNCHANGED <<scopeVars, gone>>

\* ------------------------- the registry of states, goroutine by goroutine
\* Register(def) of the earlier version: counter.Add(1), setState(k, s),
\* and the finalizer set on the address of the local variable knob.
LegacyRegister(p) ==
    /\ MayCall(p) /\ counter < MaxKnobs
    /\ \E d \in Catalog :
        LET k == counterAdd(counter)
        IN /\ counter' = k
           /\ legacy' = [legacy EXCEPT ![k] = Some(legacyNewState(d))]
           /\ issued' = issued \cup {k}
    /\ budget' = budget - 1
    /\ UNCHANGED <<env, registry, states, objs, scLock, pc, call, cur, sptr, ret,
                   initCount, crashed, scopeVars, gone>>

\* Get(kn) on a handle the program holds: getState, and the zero value
\* when there is no state.
LegacyGetState(p, kn) ==
    /\ MayCall(p)
    /\ kn \in issued
    /\ call' = [call EXCEPT ![p] = [NoCall EXCEPT !.op = "Get", !.kn = kn]]
    /\ cur' = [cur EXCEPT ![p] = kn]
    /\ budget' = budget - 1
    /\ IF InRegistry(kn)
       THEN /\ pc' = [pc EXCEPT ![p] = "lg_rlock"]
            /\ UNCHANGED ret
       ELSE /\ pc' = [pc EXCEPT ![p] = "done"]
            /\ ret' = [ret EXCEPT ![p] = Value(Zero)]
    /\ UNCHANGED <<env, counter, registry, issued, states, objs, scLock, sptr,
                   initCount, legacy, crashed, scopeVars, gone>>

\* What a read of s.current may find while another goroutine is inside
\* the initializer, under the read lock both hold: the two accesses are
\* not ordered, and the interface value is two words.
RaceOutcomes == {"nil", "written", "torn"}

\* s.RLock(); if s.current != nil { return s.current.(T) }.
LegacyGetRead(p) ==
    /\ ~crashed /\ pc[p] = "lg_rlock"
    /\ LET kn == cur[p]
           s == Val(legacy[kn])
           seen == IF Initializing(kn) = {}
                   THEN {IF Has(s.current) THEN "written" ELSE "nil"}
                   ELSE RaceOutcomes
           value == IF Has(s.current) THEN s.current
                    ELSE legacyInitializer(env, Val(s.initialize), s).current
       IN \E o \in seen :
            CASE o = "nil" ->
                    /\ pc' = [pc EXCEPT ![p] = "lg_once"]
                    /\ UNCHANGED <<ret, crashed>>
              [] o = "written" ->
                    /\ pc' = [pc EXCEPT ![p] = "done"]
                    /\ ret' = [ret EXCEPT ![p] = Value(Val(value))]
                    /\ UNCHANGED crashed
              [] o = "torn" ->
                    /\ pc' = [pc EXCEPT ![p] = "done"]
                    /\ ret' = [ret EXCEPT ![p] = Panic]
                    /\ crashed' = TRUE
    /\ UNCHANGED <<env, counter, registry, issued, states, objs, scLock, call, cur,
                   sptr, initCount, legacy, budget, scopeVars, gone>>

\* if s.initialize != nil { s.once.Do(...) }: the first caller goes into
\* the function, the others wait until it is back.
LegacyGetOnce(p) ==
    /\ ~crashed /\ pc[p] = "lg_once"
    /\ LET kn == cur[p]
           s == Val(legacy[kn])
       IN IF Has(s.initialize) /\ ~s.once
          THEN /\ Initializing(kn) = {}
               /\ pc' = [pc EXCEPT ![p] = "lg_init"]
          ELSE pc' = [pc EXCEPT ![p] = "lg_ret"]
    /\ UNCHANGED <<env, counter, registry, issued, states, objs, scLock, call, cur,
                   sptr, ret, initCount, legacy, budget, crashed, scopeVars, gone>>

\* s.initialize(s), and once.Do is done.
LegacyGetInit(p) ==
    /\ ~crashed /\ pc[p] = "lg_init"
    /\ legacy' = [legacy EXCEPT ![cur[p]] =
                    Some([legacyInitializer(env, Val(Val(@).initialize), Val(@))
                            EXCEPT !.once = TRUE])]
    /\ pc' = [pc EXCEPT ![p] = "lg_ret"]
    /\ UNCHANGED <<env, counter, registry, issued, states, objs, scLock, call, cur,
                   sptr, ret, initCount, budget, crashed, scopeVars, gone>>

\* return s.current.(T), for the states Register makes (parent 0), and
\* the deferred s.RUnlock().
LegacyGetReturn(p) ==
    /\ ~crashed /\ pc[p] = "lg_ret"
    /\ LET s == Val(legacy[cur[p]])
       IN /\ ret' = [ret EXCEPT ![p] =
                        IF Has(s.current) THEN Value(Val(s.current)) ELSE Panic]
          /\ crashed' = ~Has(s.current)
    /\ pc' = [pc EXCEPT ![p] = "done"]
    /\ UNCHANGED <<env, counter, registry, issued, states, objs, scLock, call, cur,
                   sptr, initCount, legacy, budget, scopeVars, gone>>

\* deleteState that empties the registry.
legacyDeletedAll(g, kn) == KnobIds

\* delete(registry, kn).
legacyDeleted(g, kn) == g \cup {kn}

\* deleteState(kn), called by the program.
DeleteState(p, kn) ==
    /\ MayCall(p)
    /\ kn \in issued
    /\ gone' = legacyDeleted(gone, kn)
    /\ call' = [call EXCEPT ![p] = [NoCall EXCEPT !.op = "deleteState", !.kn = kn]]
    /\ ret' = [ret EXCEPT ![p] = Void]
    /\ budget' = budget - 1
    /\ pc' = [pc EXCEPT ![p] = "done"]
    /\ UNCHANGED <<env, counter, registry, issued, states, objs, scLock, cur, sptr,
                   initCount, legacy, crashed, scopeVars>>

\* The garbage collector runs the finalizer Register set.  It is set on
\* &knob, the variable local to Register; Register returns a copy of the
\* value, so the variable is unreachable from the moment Register is back,
\* whatever the caller does with the handle.
Finalize(kn) ==
    /\ ~crashed
    /\ kn \in issued /\ InRegistry(kn)
    /\ gone' = legacyDeleted(gone, kn)
    /\ UNCHANGED <<env, counter, registry, issued, states, objs, scLock, pc, call, cur,
                   sptr, ret, initCount, legacy, budget, crashed, scopeVars>>

\* ------------------------------------------------------- specifications
\* The steps of goroutine p.
Step(p) ==
    \/ RegisterAdd(p)
    \/ RegisterStore(p)
    \/ \E sc \in Scopes : DeriveScopeAdd(p, sc)
    \/ DeriveScopeSet(p)
    \/ \E sc \in Scopes, kn \in KnobIds : CallGetScope(p, sc, kn)
    \/ \E sc \in Scopes, kn \in KnobIds, o \in SetOrigins, v \in SetValues :
            CallSetScope(p, sc, kn, o, v)
    \/ ScopeGetLookup(p)
    \/ ScopeGetCreate(p)
    \/ GetScopeRead(p)
    \/ Return(p)
    \/ SetScopeOrigin(p)
    \/ SetScopeCurrent(p)

\* Concurrent goroutines.
Next == \E p \in Procs : Step(p)
Spec == Init /\ [][Next]_vars

\* One goroutine.
SeqNext == Step(1)
SeqSpec == SeqInit /\ [][SeqNext]_vars

\* One goroutine that reads its knob, in scope 1 and in the earlier
\* version's registry.
ResolveNext ==
    \/ LegacyGet(1, 1)
    \/ CallGetScope(1, 1, 1)
    \/ ScopeGetLookup(1)
    \/ ScopeGetCreate(1)
    \/ GetScopeRead(1)
    \/ Return(1)
ResolveSpec == ResolveInit /\ [][ResolveNext]_vars

\* One goroutine that reads and writes its knob, in scope 1 and in the
\* earlier version's registry, and changes the environment in between.
EnvNext ==
    \/ Setenv(1)
    \/ LegacyGet(1, 1)
    \/ \E o \in {Env, Code}, v \in SetValues : LegacySet(1, 1, o, v)
    \/ CallGetScope(1, 1, 1)
    \/ \E o \in {Env, Code}, v \in SetValues : CallSetScope(1, 1, 1, o, v)
    \/ ScopeGetLookup(1)
    \/ ScopeGetCreate(1)
    \/ GetScopeRead(1)
    \/ SetScopeOrigin(1)
    \/ SetScopeCurrent(1)
    \/ Return(1)
EnvSpec == EnvInit /\ [][EnvNext]_vars

\* Concurrent goroutines that use the default scope and replace it, and
\* that may hold a scope they built themselves.
DefInit ==
    /\ env = EnvSet
    /\ \E d \in Catalog : d.Origins = {} /\ Registered(d)
    /\ legacy = LegacyEmpty
    /\ budget = MaxCalls
    /\ InitCommon /\ NoneGone
    /\ defMux = 0 /\ defScope = 0 /\ made = 0
    /\ zeroScopes \in {{}, {NumScopes}}

DefStep(p) ==
    \/ CallDefaultScope(p)
    \/ \E kn \in KnobIds : CallGet(p, kn)
    \/ \E kn \in KnobIds, v \in SetValues : CallSet(p, kn, Code, v)
    \/ DefaultScopeCheck(p)
    \/ DefaultScopeNew(p)
    \/ \E sc \in 0..NumScopes : SetDefaultScope(p, sc)
    \/ \E sc \in zeroScopes, kn \in KnobIds : CallGetScope(p, sc, kn)
    \/ \E sc \in zeroScopes, kn \in KnobIds, v \in SetValues :
            CallSetScope(p, sc, kn, Code, v)
    \/ \E sc \in zeroScopes : DeriveScopeAdd(p, sc)
    \/ DeriveScopeSet(p)
    \/ ScopeGetLookup(p)
    \/ ScopeGetCreate(p)
    \/ GetScopeRead(p)
    \/ SetScopeOrigin(p)
    \/ SetScopeCurrent(p)
    \/ Return(p)

DefNext == \E p \in Procs : DefStep(p)
DefSpec == DefInit /\ [][DefNext]_vars

\* One goroutine that registers MutBase, writes to the struct and reads
\* the knob in scope 1.
MutateInit ==
    /\ env \in [Keys -> {None, Some(<<"a">>)}]
    /\ Registered(MutBase)
    /\ legacy = LegacyEmpty
    /\ budget = MaxCalls
    /\ InitCommon /\ ScopesMade /\ NoneGone

MutateNext ==
    \/ MutateDefinition(1, 1)
    \/ CallGetScope(1, 1, 1)
    \/ ScopeGetLookup(1)
    \/ ScopeGetCreate(1)
    \/ GetScopeRead(1)
    \/ Return(1)
MutateSpec == MutateInit /\ [][MutateNext]_vars

\* Concurrent goroutines on the earlier version's registry of states, with
\* the garbage collector at work.
LegacyInit ==
    /\ env = EnvSet
    /\ counter = 1 /\ issued = {1}
    /\ registry = [k \in KnobIds |-> None]
    /\ \E d \in Catalog : legacy = LegacyRegistered(d)
    /\ budget = MaxCalls
    /\ InitCommon /\ ScopesMade /\ NoneGone

LegacyStep(p) ==
    \/ LegacyRegister(p)
    \/ \E kn \in KnobIds : LegacyGetState(p, kn)
    \/ LegacyGetRead(p)
    \/ LegacyGetOnce(p)
    \/ LegacyGetInit(p)
    \/ LegacyGetReturn(p)
    \/ \E kn \in issued, v \in SetValues : LegacySet(p, kn, Code, v)
    \/ \E kn \in KnobIds : DeleteState(p, kn)
    \/ Return(p)

LegacyNext ==
    \/ \E p \in Procs : LegacyStep(p)
    \/ \E kn \in KnobIds : Finalize(kn)
LegacySpec == LegacyInit /\ [][LegacyNext]_vars

\* Concurrent goroutines under fair scheduling, after DefaultScope(),
\* Register(d) and DeriveScope(sc, k) have given the program a scope, a
\* knob and a knob derived from it.
FairInit ==
    /\ env = EnvSet
    /\ counter = 2 /\ issued = {1, 2}
    /\ \E d \in Catalog :
        /\ d.Origins = {}
        /\ registry = [k \in KnobIds |-> IF k = 1 THEN Some(NewDefinition(d)) ELSE None]
    /\ states = [sc \in Scopes |-> [k \in KnobIds |-> IF sc = 1 /\ k = 2 THEN 1 ELSE 0]]
    /\ objs = [sc \in Scopes |->
                [k \in KnobIds |-> IF sc = 1 /\ k = 2 THEN <<NewState(None, 1)>> ELSE <<>>]]
    /\ scLock = [sc \in Scopes |-> 0]
    /\ pc = [p \in Procs |-> "idle"]
    /\ call = [p \in Procs |-> NoCall]
    /\ cur = [p \in Procs |-> 0]
    /\ sptr = [p \in Procs |-> NilPtr]
    /\ ret = [p \in Procs |-> NoRet]
    /\ initCount = [sc \in Scopes |-> [k \in KnobIds |-> 0]]
    /\ crashed = FALSE
    /\ legacy = LegacyEmpty
    /\ budget = MaxCalls
    /\ defMux = 0 /\ defScope = 1 /\ made = 1 /\ zeroScopes = {}
    /\ NoneGone

\* The calls goroutine p may start.
FairCall(p) ==
    \/ RegisterAdd(p)
    \/ \E sc \in HeldScopes : DeriveScopeAdd(p, sc)
    \/ \E sc \in HeldScopes, kn \in KnobIds : CallGetScope(p, sc, kn)
    \/ \E sc \in HeldScopes, kn \in KnobIds : CallSetScope(p, sc, kn, Code, <<"x">>)
    \/ CallDefaultScope(p)
    \/ \E sc \in 0..NumScopes : SetDefaultScope(p, sc)

\* The steps by which goroutine p goes on in the call it is in.
FairContinue(p) ==
    \/ RegisterStore(p)
    \/ DeriveScopeSet(p)
    \/ ScopeGetLookup(p)
    \/ ScopeGetCreate(p)
    \/ GetScopeRead(p)
    \/ SetScopeOrigin(p)
    \/ SetScopeCurrent(p)
    \/ DefaultScopeCheck(p)
    \/ DefaultScopeNew(p)
    \/ Return(p)

FairNext == \E p \in Procs : FairCall(p) \/ FairContinue(p)

\* The scheduler lets every goroutine that can go on do so.
FairSpec ==
    FairInit /\ [][FairNext]_vars /\ \A p \in Procs : WF_vars(FairContinue(p))

\* ------------------------------------------------- a call run on its own
\* The state sc.get(kn) answers in the current state: the entry of the
\* scope, or the state get would create and initialise.
sget(sc, kn) ==
    IF states[sc][kn] # 0 THEN objs[sc][kn][states[sc][kn]]
    ELSE init(env, NewState(registry[kn], 0))

\* What GetScope(sc, kn) returns when no other goroutine runs meanwhile.
RECURSIVE GetScopeAlone(_, _)
GetScopeAlone(sc, kn) ==
    IF states[sc][kn] # 0
    THEN LET out == ReadOutcome(objs[sc][kn][states[sc][kn]])
         IN IF out.kind = "parent" THEN GetScopeAlone(sc, out.val[1]) ELSE out
    ELSE ReadOutcome(init(env, NewState(registry[kn], 0)))

\* The stored value and last origin of (sc, kn).
Stored(sc, kn) == <<sget(sc, kn).current, sget(sc, kn).origin>>

\* Goroutine p takes a step of a SetScope call / returns from it.
InSetScope(p) == call[p].op = "SetScope" /\ pc'[p] # pc[p]
SetScopeReturns(p) == InSetScope(p) /\ pc'[p] = "done"

IsRegistered(kn) == Has(registry[kn])

\* =================================================================== C1
\* C1: for every (scope, knob) pair the Definition's initializer has run
\* exactly once when the pair has a state with a definition, and not at
\* all before, however many goroutines make the first GetScope/SetScope.
C1_InitializerRunsOnce ==
    \A sc \in Scopes, kn \in KnobIds :
        initCount[sc][kn] =
            IF states[sc][kn] # 0 /\ Has(sget(sc, kn).definition) THEN 1 ELSE 0

\* Two calls have been made, a GetScope and a SetScope, both are in flight
\* on the same state, and its initializer has run once.
C1_Witness ==
    \E p, q \in Procs :
        /\ p # q /\ budget = MaxCalls - 2
        /\ call[p].op = "GetScope" /\ pc[p] = "st_rlock"
        /\ call[q].op = "SetScope" /\ pc[q] = "st_lock"
        /\ sptr[p] = sptr[q]
        /\ initCount[sptr[p].sc][sptr[p].kn] = 1

\* =================================================================== C2
\* C2: no step of a SetScope(s1, k, origin, v), allowed or not, changes
\* what GetScope(s2, k) returns for a registered knob k in another scope.
C2_ScopesIndependent ==
    [][\A p \in Procs :
        InSetScope(p) =>
            \A s2 \in Scopes \ {call[p].sc}, kn \in KnobIds :
                IsRegistered(kn) => GetScopeAlone(s2, kn)' = GetScopeAlone(s2, kn)]_vars

\* A GetScope in scope 2 has returned the environment's value of knob 1
\* while scope 1 holds a value written from Code.
C2_Witness ==
    \E p \in Procs :
        /\ pc[p] = "done" /\ call[p].op = "GetScope"
        /\ call[p].sc = 2 /\ call[p].kn = 1
        /\ ret[p] = Value(<<"a">>)
        /\ states[1][1] # 0 /\ sget(1, 1).origin = Code
        /\ sget(1, 1).current # Some(<<"a">>)

\* ======================================================== C3 .. C8: the
\* resolution of one knob registered with Definition TheDef.
TheDef == Val(registry[1]).init
Sources == TheDef.EnvVars
IsSet(i) == Has(env[Sources[i].Key])
Yields(i) == getValueIn(env, Sources[i])
Parsed(i) == ApplyParse(TheDef.Parse, Yields(i))
\* Source i is present and valid: it yields a value that Parse accepts.
Valid(i) == IsSet(i) /\ Yields(i) # <<>> /\ TheDef.Parse # "nil" /\ ~Parsed(i).err
\* Source i is present and its transform rejects the value.
Rejected(i) == IsSet(i) /\ Sources[i].Transform # "nil" /\ Yields(i) = <<>>
NoneBefore(k) == \A j \in 1..(k - 1) : Yields(j) = <<>>
GetReturned == pc[1] = "done" /\ call[1].op = "GetScope"

\* The same for the earlier version of the package.
LYields(i) == legacyGetValue(env, Sources[i])
LRejected(i) == IsSet(i) /\ Sources[i].Transform # "nil" /\ ~LYields(i).ok
LNoneBefore(k) == \A j \in 1..(k - 1) : ~LYields(j).ok
LegacyReturned == pc[1] = "done" /\ call[1].op = "Get"

C4_DefaultWhenUnset ==
    (GetReturned /\ \A i \in 1..Len(Sources) : ~IsSet(i)) =>
        ret[1] = Value(TheDef.Default)

\* Get has returned the default of a Definition whose source is unset,
\* while another variable of the environment is set.
C4_Witness ==
    /\ GetReturned /\ Len(Sources) = 1 /\ ~IsSet(1)
    /\ Sources[1].Transform = "constant"
    /\ \E k \in Keys : Has(env[k])
    /\ ret[1] = Value(TheDef.Default)

\* =================================================================== C5
\* C5: a source whose transform rejects the value (the empty string, or
\* not-ok in the (T, bool) variant) is passed over for the next source in
\* declared order, and when every source is absent or rejected Get
\* returns Definition.Default.
C5_RejectedSourceIsSkipped ==
    /\ GetReturned =>
        /\ (\A i \in 1..Len(Sources) : Yields(i) = <<>>) =>
                ret[1] = Value(TheDef.Default)
        /\ \A k \in 1..Len(Sources) :
            ((\E i \in 1..(k - 1) : Rejected(i)) /\ NoneBefore(k) /\ Valid(k)) =>
                ret[1] = Value(Parsed(k).val)
    /\ LegacyReturned =>
        /\ (\A i \in 1..Len(Sources) : ~LYields(i).ok) =>
                ret[1] = Value(TheDef.Default)
        /\ \A k \in 1..Len(Sources) :
            ((\E i \in 1..(k - 1) : LRejected(i)) /\ LNoneBefore(k) /\ LYields(k).ok) =>
                ret[1] = Value(LYields(k).val)

\* The first source is rejected in both versions and the second is valid:
\* the earlier version's Get has stored the second source's value, and
\* GetScope has returned it.
C5_Witness ==
    /\ GetReturned /\ Len(Sources) = 2
    /\ Rejected(1) /\ Valid(2) /\ ret[1] = Value(Parsed(2).val)
    /\ LRejected(1) /\ LYields(2).ok
    /\ Val(legacy[1]).once /\ Val(legacy[1]).current = Some(LYields(2).val)

\* =================================================================== C6
\* C6: with sources [A, B], A present but declined by Parse and B present
\* and accepted by Parse, Get returns B's parsed value.
C6_ParseRejectionContinues ==
    (/\ GetReturned /\ Len(Sources) = 2 /\ TheDef.Parse # "nil"
     /\ IsSet(1) /\ Yields(1) # <<>> /\ Parsed(1).err
     /\ Valid(2)) =>
        ret[1] = Value(Parsed(2).val)

\* =================================================================== C7
\* C7: when Parse returns an error for the value read from the
\* environment, the value Parse returned is ignored and Get returns
\* Definition.Default, without a panic.
C7_ParseErrorGivesDefault ==
    (/\ GetReturned /\ TheDef.Parse # "nil"
     /\ \E k \in 1..Len(Sources) :
            NoneBefore(k) /\ Yields(k) # <<>> /\ Parsed(k).err) =>
        ret[1] = Value(TheDef.Default) /\ ~crashed

\* Get has returned the default although the source yields a value: the
\* strict parser declined it.
C7_Witness ==
    /\ GetReturned /\ TheDef.Parse = "strict" /\ Len(Sources) = 1
    /\ Yields(1) = <<"a">>
    /\ ret[1] = Value(TheDef.Default)

\* =================================================================== C8
\* C8: after initialization, when no env source yielded an accepted value
\* the state holds Definition.Default with last origin Default, and the
\* last origin is Env only when the value was taken from the environment.
Accepted == \E k \in 1..Len(Sources) : NoneBefore(k) /\ Valid(k)
C8_OriginSaysWhereValueIsFrom ==
    states[1][1] # 0 =>
        /\ ~Accepted =>
            sget(1, 1).current = Some(TheDef.Default) /\ sget(1, 1).origin = Default
        /\ sget(1, 1).origin = Env => Accepted

\* =================================================================== C9
\* C9: SetScope(sc, k, Code, v) on a registered knob, whatever origins its
\* Definition declares, leaves v as the stored value with last origin
\* Code, and a GetScope(sc, k) that follows returns v.
C9_CodeAlwaysWrites ==
    [][\A p \in Procs, sc \in Scopes, kn \in KnobIds, v \in SetValues :
        (/\ SetScopeReturns(p) /\ IsRegistered(kn)
         /\ call[p].sc = sc /\ call[p].kn = kn
         /\ call[p].origin = Code /\ call[p].value = v) =>
            /\ Stored(sc, kn)' = <<Some(v), Code>>
            /\ GetScopeAlone(sc, kn)' = Value(v)]_vars

\* A SetScope from Code has returned on a knob whose Definition declares
\* no origin, and its value is stored.
C9_Witness ==
    \E p \in Procs :
        /\ pc[p] = "done" /\ call[p].op = "SetScope" /\ call[p].origin = Code
        /\ IsRegistered(call[p].kn)
        /\ Val(registry[call[p].kn]).origins = {}
        /\ Stored(call[p].sc, call[p].kn) = <<Some(call[p].value), Code>>

\* ================================================================== C10
\* C10: no step of a SetScope on a registered knob with an origin that is
\* not Code and not among the Definition's Origins changes the stored
\* value or the last origin, or what GetScope returns; it does not panic.
Disallowed(c) ==
    /\ c.origin # Code
    /\ IsRegistered(c.kn)
    /\ c.origin \notin Val(registry[c.kn]).origins
C10_DisallowedOriginIsNoOp ==
    [][\A p \in Procs, sc \in Scopes, kn \in KnobIds :
        (/\ InSetScope(p) /\ Disallowed(call[p])
         /\ call[p].sc = sc /\ call[p].kn = kn) =>
            /\ Stored(sc, kn)' = Stored(sc, kn)
            /\ GetScopeAlone(sc, kn)' = GetScopeAlone(sc, kn)
            /\ ~crashed']_vars

\* A SetScope with an undeclared origin has returned, and the state still
\* holds the value an earlier SetScope from Code wrote.
C10_Witness ==
    \E p \in Procs :
        /\ pc[p] = "done" /\ call[p].op = "SetScope" /\ Disallowed(call[p])
        /\ ret[p] = Void
        /\ sget(call[p].sc, call[p].kn).origin = Code
        /\ sget(call[p].sc, call[p].kn).current # Some(call[p].value)

\* ================================================================== C11
\* C11: SetScope on a registered knob with a caller-defined origin that
\* its Definition lists leaves the value written and that origin as the
\* last origin, and a GetScope(sc, k) that follows returns the value.
Declared(c) ==
    /\ c.origin \notin {Default, Env, Code}
    /\ IsRegistered(c.kn)
    /\ c.origin \in Val(registry[c.kn]).origins
C11_DeclaredOriginWrites ==
    [][\A p \in Procs, sc \in Scopes, kn \in KnobIds, v \in SetValues :
        (/\ SetScopeReturns(p) /\ Declared(call[p])
         /\ call[p].sc = sc /\ call[p].kn = kn /\ call[p].value = v) =>
            /\ Stored(sc, kn)' = <<Some(v), Custom>>
            /\ GetScopeAlone(sc, kn)' = Value(v)]_vars

\* The second call of the run, a SetScope with the origin the Definition
\* declares, has returned and its value and origin are stored.
C11_Witness ==
    \E p \in Procs :
        /\ pc[p] = "done" /\ call[p].op = "SetScope" /\ Declared(call[p])
        /\ call[p].origin = Custom /\ ret[p] = Void
        /\ budget = MaxCalls - 2
        /\ Stored(call[p].sc, call[p].kn) = <<Some(call[p].value), Custom>>

\* ========================================================== C12 and C13
\* The derived knob d has its state in scope sc, made by DeriveScope.
DerivedIn(sc, d) == states[sc][d] # 0 /\ sget(sc, d).parent > 0
\* Goroutine p's GetScope on (sc, d) returns in this step.
GetScopeReturnsOn(p, sc, d) ==
    /\ call[p].op = "GetScope" /\ call[p].sc = sc /\ call[p].kn = d
    /\ pc[p] = "st_rlock" /\ pc'[p] = "done"

C13_DerivedSetShadowsParent ==
    [][\A p \in Procs, sc \in Scopes, d \in KnobIds :
        (DerivedIn(sc, d) /\ Has(sget(sc, d).current)) =>
            /\ GetScopeReturnsOn(p, sc, d) => ret'[p] = Value(Val(sget(sc, d).current))
            /\ (InSetScope(p) /\ call[p].kn # d) =>
                    GetScopeAlone(sc, d)' = GetScopeAlone(sc, d)]_vars

\* A SetScope on the parent has returned with its value stored, and the
\* derived knob, set before, still answers with its own value.
C13_Witness ==
    \E p \in Procs, sc \in Scopes, d \in KnobIds :
        /\ DerivedIn(sc, d) /\ Has(sget(sc, d).current)
        /\ pc[p] = "done" /\ call[p].op = "SetScope" /\ call[p].sc = sc
        /\ call[p].kn = sget(sc, d).parent /\ call[p].origin = Code
        /\ sget(sc, call[p].kn).current = Some(call[p].value)
        /\ sget(sc, d).current # Some(call[p].value)
        /\ GetScopeAlone(sc, d) = Value(Val(sget(sc, d).current))

\* ========================================================== C14 and C15
\* Goroutine p holds the state Scope.get made for an id that has no
\* Definition in the registry and had no state in the scope.
OnUnknown(p) ==
    /\ sptr[p] # NilPtr
    /\ ~IsRegistered(sptr[p].kn)
    /\ ~Has(Obj(sptr[p]).definition) /\ Obj(sptr[p]).parent = 0

\* C14: a GetScope for an id without a Definition in the registry and
\* without a state in the scope returns the zero value of T and does not
\* panic.
C14_UnknownGetReturnsZero ==
    \A p \in Procs :
        (/\ pc[p] = "done" /\ call[p].op = "GetScope" /\ call[p].kn = sptr[p].kn
         /\ OnUnknown(p) /\ ~Has(Obj(sptr[p]).current)) =>
            ret[p] = Value(Zero) /\ ~crashed

\* C15: a SetScope for an id without a Definition in the registry and
\* without a state in the scope does nothing, whatever the origin: it does
\* not panic and stores no value.
C15_UnknownSetIsNoOp ==
    \A p \in Procs :
        (pc[p] = "done" /\ call[p].op = "SetScope" /\ OnUnknown(p)) =>
            /\ ret[p] = Void /\ ~crashed
            /\ ~Has(Obj(sptr[p]).current)

\* ================================================================== C16
\* The SetScope of call c passes the origin check on a registered knob.
Allowed(c) == c.op = "SetScope" /\ (c.origin = Code \/ Declared(c))
\* The value the initializer gives knob kn in the current environment.
InitialValue(kn) == init(env, NewState(registry[kn], 0)).current

\* The value held by the state that (sc, kn) has.
Current(sc, kn) == objs[sc][kn][states[sc][kn]].current

\* C16: the value held by the state of (sc, k) changes only in the step in
\* which an allowed SetScope(sc, k, o, v) writes v and returns, from then
\* on a GetScope(sc, k) gives v, and a GetScope returns the value held at
\* the moment it reads, never while a SetScope is between its two writes.
\* So a GetScope that starts after a SetScope returned gives that value or
\* a later one, and every value read is the initial one or a written one.
C16_SetVisibleToLaterGet ==
    [][\A sc \in Scopes, kn \in KnobIds :
        /\ (/\ states[sc][kn] # 0 /\ states'[sc][kn] # 0
            /\ Current(sc, kn)' # Current(sc, kn)) =>
            \E q \in Procs, v \in SetValues :
                /\ call[q].op = "SetScope" /\ call[q].sc = sc /\ call[q].kn = kn
                /\ call[q].value = v
                /\ (IsRegistered(kn) => Allowed(call[q]))
                /\ SetScopeReturns(q)
                /\ Current(sc, kn)' = Some(v)
                /\ GetScopeAlone(sc, kn)' = Value(v)
        /\ \A p \in Procs :
            (GetScopeReturnsOn(p, sc, kn) /\ IsRegistered(kn)) =>
                /\ Obj(sptr[p]).w = 0
                /\ ret'[p] = Value(Val(Current(sc, kn)))
                /\ ret'[p].val \in SetValues \cup {Val(InitialValue(kn))}]_vars

\* A GetScope has returned the value of a SetScope that returned before
\* it read, while the other goroutine's next SetScope on the same state
\* waits for the lock.
C16_Witness ==
    \E p, q \in Procs, v \in SetValues :
        /\ p # q
        /\ pc[p] = "done" /\ call[p].op = "GetScope" /\ IsRegistered(call[p].kn)
        /\ ret[p] = Value(v)
        /\ Stored(call[p].sc, call[p].kn) = <<Some(v), Code>>
        /\ pc[q] = "st_lock" /\ Allowed(call[q]) /\ sptr[q] = sptr[p]
        /\ call[q].value # v

\* ========================================================== C17 and C18
\* The state of knob kn in the earlier version's registry.
LegacyState(kn) == Val(legacy[kn])
\* The earlier version's Get(kn) is this step.
LegacyGetOn(p, kn) ==
    pc[p] = "idle" /\ pc'[p] = "done" /\ call'[p].op = "Get" /\ call'[p].kn = kn

\* C17: once the state of (sc, k) holds a value, from its initialization
\* or from a SetScope, a change of the environment leaves what GetScope
\* returns for it as it is, and every GetScope returns the value held; the
\* same for Get on the earlier version's registry.
C17_EnvironmentReadOnce ==
    [][\A sc \in Scopes, kn \in KnobIds :
        /\ (states[sc][kn] # 0 /\ Has(Current(sc, kn))) =>
            /\ env' # env => GetScopeAlone(sc, kn)' = GetScopeAlone(sc, kn)
            /\ \A p \in Procs :
                GetScopeReturnsOn(p, sc, kn) => ret'[p] = Value(Val(Current(sc, kn)))
        /\ (Has(legacy[kn]) /\ Has(LegacyState(kn).current)) =>
            /\ env' # env =>
                legacyResolved(env, LegacyState(kn))' = legacyResolved(env, LegacyState(kn))
            /\ \A p \in Procs :
                LegacyGetOn(p, kn) =>
                    /\ ret'[p] = Value(Val(LegacyState(kn).current))
                    /\ LegacyState(kn)' = LegacyState(kn)]_vars

\* GetScope has returned the value the first access resolved, which is not
\* what the environment as it is now resolves to; the same value is held in
\* the earlier version's registry, from its Get.
C17_Witness ==
    /\ pc[1] = "done" /\ call[1].op = "GetScope" /\ states[1][1] # 0
    /\ sget(1, 1).origin # Code
    /\ ret[1] = Value(Val(Current(1, 1)))
    /\ InitialValue(1) # Current(1, 1)
    /\ LegacyState(1).once /\ LegacyState(1).current = Current(1, 1)

\* C18: when an allowed Set is the first operation on a registered knob,
\* the value it wrote is the value held, and every Get after it returns
\* the value held, which is a written one, whatever the environment holds
\* for the knob's sources; resolution from the environment does not run
\* over it.
C18_SetBeforeGetWins ==
    [][\A p \in Procs, v \in SetValues :
        /\ (/\ SetScopeReturns(p) /\ call[p].origin = Code /\ call[p].value = v
            /\ call[p].sc = 1 /\ call[p].kn = 1) =>
                Stored(1, 1)' = <<Some(v), Code>>
        /\ (/\ GetScopeReturnsOn(p, 1, 1) /\ states[1][1] # 0
            /\ sget(1, 1).origin = Code) =>
                ret'[p] = Value(Val(Current(1, 1))) /\ ret'[p].val \in SetValues
        /\ (/\ pc[p] = "idle" /\ call'[p].op = "Set" /\ call'[p].origin = Code
            /\ call'[p].value = v) =>
                /\ LegacyState(1)'.current = Some(v)
                /\ LegacyState(1)'.origin = Code
        /\ (LegacyGetOn(p, 1) /\ LegacyState(1).origin = Code) =>
                /\ ret'[p] = Value(Val(LegacyState(1).current))
                /\ ret'[p].val \in SetValues
                /\ LegacyState(1)' = LegacyState(1)]_vars

\* The earlier version's Get, the second call of the run, has returned the
\* value its Set wrote before; the initializer has not run, although the
\* first source is set and gives a value.
C18_Witness ==
    \E v \in SetValues :
        /\ pc[1] = "done" /\ call[1].op = "Get" /\ ret[1] = Value(v)
        /\ budget = MaxEnvCalls - 2
        /\ ~LegacyState(1).once /\ LegacyState(1).origin = Code
        /\ LYields(1).ok /\ LYields(1).val = <<"a">>

\* ================================================================== C19
\* The derived knob d, made by DeriveScope in some scope, and its parent.
IsDerived(d) == \E s1 \in Scopes : DerivedIn(s1, d)
ParentOf(d) == sget(CHOOSE s1 \in Scopes : DerivedIn(s1, d), d).parent

\* C19: for a derived knob d, a GetScope(s2, d) in a scope s2 where d has
\* had no Set returns what GetScope(s2, parent) returns in s2, whichever
\* scope d was derived in.
C19_DerivedInAnyScope ==
    \A p \in Procs :
        (/\ pc[p] = "done" /\ call[p].op = "GetScope" /\ IsDerived(call[p].kn)
         /\ ~Has(sget(call[p].sc, call[p].kn).current)) =>
            ret[p] = GetScopeAlone(call[p].sc, ParentOf(call[p].kn))

\* ================================================================== C20
\* The identifiers counter.Add has given out: those returned, and those of
\* the Register and DeriveScope calls in flight.
Allocated ==
    issued \cup {call[q].kn : q \in {r \in Procs : call[r].op \in {"Register", "DeriveScope"}}}

\* C20: every Register and DeriveScope call gets an identifier greater
\* than every identifier given out before it, also when the Definition or
\* the parent is one used before, and calls in flight at the same time
\* hold different identifiers.
C20_IdentifiersFresh ==
    [][/\ \A p \in Procs :
            (pc[p] = "idle" /\ pc'[p] \in {"reg_store", "der_set"}) =>
                /\ \A k \in Allocated : k < call'[p].kn
                /\ call'[p].kn \notin Allocated
                /\ Allocated' = Allocated \cup {call'[p].kn}
       /\ Allocated \subseteq Allocated'
       /\ \A p, q \in Procs :
            (p # q /\ pc'[p] \in {"reg_store", "der_set"}
                   /\ pc'[q] \in {"reg_store", "der_set"}) =>
                call'[p].kn # call'[q].kn]_vars

\* A Register with the Definition knob 1 was registered with and a
\* DeriveScope of knob 1 are in flight together, with two new identifiers.
C20_Witness ==
    \E p, q \in Procs :
        /\ pc[p] = "reg_store" /\ pc[q] = "der_set"
        /\ call[p].def = Some(Val(registry[1]).init)
        /\ call[q].parent = 1
        /\ {call[p].kn, call[q].kn} = {2, 3}

\* ================================================================== C24
\* C24: no (scope, id) pair ever has a second state object, and every
\* goroutine that is in a GetScope or SetScope holds the state the scope's
\* table has for its pair, so a SetScope that has returned wrote to the
\* state every other call reads.
C24_OneStatePerPair ==
    /\ \A sc \in Scopes, kn \in KnobIds : Len(objs[sc][kn]) <= 1
    /\ \A p \in Procs :
        sptr[p] # NilPtr => sptr[p].idx = states[sptr[p].sc][sptr[p].kn]

\* The two first calls on a pair, made together: the SetScope has
\* returned, the GetScope holds the same state and is about to read the
\* value written.
C24_Witness ==
    \E p, q \in Procs :
        /\ p # q /\ budget = MaxCalls - 2
        /\ pc[p] = "done" /\ Allowed(call[p]) /\ call[p].origin = Code
        /\ pc[q] = "st_rlock" /\ call[q].op = "GetScope" /\ call[q].kn = call[p].kn
        /\ sptr[q] = sptr[p]
        /\ Len(objs[sptr[p].sc][sptr[p].kn]) = 1
        /\ Obj(sptr[q]).current = Some(call[p].value)

\* ================================================================== C26
\* Every knob on the way from kn to its root is derived in sc from the
\* one before it, and the root is a registered knob.
RECURSIVE Rooted(_, _)
Rooted(sc, kn) ==
    IF DerivedIn(sc, kn) THEN Rooted(sc, sget(sc, kn).parent)
    ELSE IsRegistered(kn)

\* The own value of the nearest knob, from kn towards the root, that has
\* one; the root's value is the one written to it or the one it resolves to.
RECURSIVE NearestValue(_, _)
NearestValue(sc, kn) ==
    IF DerivedIn(sc, kn)
    THEN IF Has(Current(sc, kn)) THEN Value(Val(Current(sc, kn)))
         ELSE NearestValue(sc, sget(sc, kn).parent)
    ELSE Value(Val(sget(sc, kn).current))

\* Number of derivations between kn and its root in sc.
RECURSIVE Depth(_, _)
Depth(sc, kn) == IF DerivedIn(sc, kn) THEN 1 + Depth(sc, sget(sc, kn).parent) ELSE 0

\* C26: a GetScope(sc, kn) on a knob at the end of a derivation chain
\* held in sc returns the own value of the nearest knob of the chain that
\* has one, and the root's value when no derived knob of the chain has one.
C26_NearestSetInChain ==
    \A sc \in Scopes, kn \in KnobIds :
        (/\ pc[1] = "done" /\ call[1].op = "GetScope"
         /\ call[1].sc = sc /\ call[1].kn = kn
         /\ DerivedIn(sc, kn) /\ Rooted(sc, kn)) =>
            ret[1] = NearestValue(sc, kn)

\* A chain of two derivations whose middle knob was set: the GetScope on
\* the last knob has returned the middle knob's value, not the root's.
C26_Witness ==
    \E sc \in Scopes, kn \in KnobIds, v \in SetValues :
        /\ pc[1] = "done" /\ call[1].op = "GetScope"
        /\ call[1].sc = sc /\ call[1].kn = kn
        /\ Rooted(sc, kn) /\ Depth(sc, kn) = 2
        /\ ~Has(Current(sc, kn))
        /\ Current(sc, sget(sc, kn).parent) = Some(v)
        /\ ret[1] = Value(v)
        /\ sget(sc, sget(sc, sget(sc, kn).parent).parent).current # Some(v)

\* ================================================================== C27
\* C27: a SetScope on a derived knob, in the scope it was derived in,
\* with an origin other than Code returns without a panic and leaves the
\* derived knob without a value of its own.
C27_DerivedSetOtherOriginIgnored ==
    \A p \in Procs, sc \in Scopes, d \in KnobIds :
        (/\ pc[p] = "done" /\ call[p].op = "SetScope"
         /\ call[p].sc = sc /\ call[p].kn = d /\ call[p].origin # Code
         /\ DerivedIn(sc, d)) =>
            /\ ret[p] = Void /\ ~crashed
            /\ ~Has(Current(sc, d))

\* ================================================================== C28
\* C28: every state in a scope's table, for an id that Register or
\* DeriveScope returned, has a Definition, or has none and a parent that
\* is an id returned earlier.
C28_StateHasDefinitionOrParent ==
    \A sc \in Scopes, kn \in issued :
        states[sc][kn] # 0 =>
            LET s == objs[sc][kn][states[sc][kn]]
            IN \/ Has(s.definition)
               \/ s.parent > 0 /\ s.parent < kn /\ s.parent \in issued

\* ================================================================== C21
\* Goroutine p's DefaultScope, called by the program or by Get or Set,
\* returns in this step.
DefaultScopeReturns(p) ==
    pc[p] \in {"ds_check", "ds_new"} /\ pc'[p] \in {"done", "sc_get"}
\* The scope it returns is sc.
DefaultScopeGives(p, sc) ==
    IF call[p].op = "DefaultScope" THEN ret'[p] = ScopeRet(sc) ELSE call'[p].sc = sc
\* Goroutine p calls SetDefaultScope(sc) in this step.
SetsDefaultScope(p, sc) ==
    call[p].op = "none" /\ call'[p].op = "SetDefaultScope" /\ call'[p].sc = sc

\* C21: DefaultScope creates a Scope only when there is no default scope,
\* and otherwise returns the default scope there is, so first calls made
\* together all get the one Scope; SetDefaultScope(sc) makes sc the
\* default scope that DefaultScope, Get and Set go on to use, and changes
\* no state of any scope.
C21_DefaultScopeIsSingleton ==
    [][/\ made' # made => defScope = 0 /\ made' = made + 1
       /\ \A p \in Procs :
            /\ DefaultScopeReturns(p) =>
                /\ defScope' # 0 /\ DefaultScopeGives(p, defScope')
                /\ defScope # 0 => defScope' = defScope
            /\ \A sc \in 0..NumScopes : SetsDefaultScope(p, sc) =>
                defScope' = sc /\ states' = states /\ objs' = objs
       /\ defScope' # defScope =>
            \/ made' = made + 1
            \/ \E p \in Procs, sc \in 0..NumScopes : SetsDefaultScope(p, sc)]_vars

\* Two goroutines made the first calls of DefaultScope together: both
\* have the one Scope that was created.
C21_Witness ==
    /\ budget = MaxCalls - 2 /\ made = 1
    /\ \A p \in Procs :
        pc[p] = "done" /\ call[p].op = "DefaultScope" /\ ret[p] = ScopeRet(defScope)

\* ================================================================== C23
\* C23: a GetScope, SetScope or DeriveScope on a scope the caller built
\* itself does not panic.
C23_PrivateScopeUsable ==
    \A p \in Procs :
        (call[p].op \in {"GetScope", "SetScope", "DeriveScope"}
            /\ call[p].sc \in zeroScopes) => ret[p] # Panic

\* ================================================================== C29
\* C29: whatever the caller writes to its Definition after Register, a
\* GetScope returns what the Definition as it was registered resolves to.
C29_DefinitionFixedAtRegister ==
    (pc[1] = "done" /\ call[1].op = "GetScope") =>
        ret[1] = ReadOutcome(init(env, NewState(Some(NewDefinition(MutBase)), 0)))

\* ================================================================== C22
\* Goroutine p starts the call op on knob kn in this step.
LegacyCalls(p, op, kn) ==
    call[p].op = "none" /\ call'[p].op = op /\ call'[p].kn = kn

\* C22: deleteState(kn) takes kn out of the registry and leaves every
\* other entry as it is; a Get for an id that has no entry returns the
\* zero value of T, and a Set for it changes nothing.
C22_DeletedKnobIsGone ==
    [][\A p \in Procs, kn \in KnobIds :
        /\ LegacyCalls(p, "deleteState", kn) =>
            /\ ~InRegistry(kn)'
            /\ \A j \in KnobIds \ {kn} :
                InRegistry(j)' = InRegistry(j) /\ legacy'[j] = legacy[j]
        /\ (LegacyCalls(p, "Get", kn) /\ ~InRegistry(kn)) =>
            ret'[p] = Value(Zero) /\ pc'[p] = "done" /\ legacy' = legacy
        /\ (LegacyCalls(p, "Set", kn) /\ ~InRegistry(kn)) =>
            ret'[p] = Void /\ legacy' = legacy /\ gone' = gone]_vars

\* One goroutine is back from deleteState(kn) and the other from a Get on
\* kn, which returned the zero value; another knob is still registered.
C22_Witness ==
    \E p, q \in Procs :
        /\ pc[q] = "done" /\ call[q].op = "deleteState"
        /\ pc[p] = "done" /\ call[p].op = "Get" /\ call[p].kn = call[q].kn
        /\ ret[p] = Value(Zero)
        /\ \E j \in issued : j # call[q].kn /\ InRegistry(j)

\* ================================================================== C25
\* C25: a Get on a registered knob that no Set has written returns the
\* value the knob's sources resolve to, whatever other Get runs with it.
C25_GetSeesResolvedValue ==
    \A p \in Procs, kn \in KnobIds :
        (/\ pc[p] = "done" /\ call[p].op = "Get" /\ call[p].kn = kn
         /\ InRegistry(kn) /\ LegacyState(kn).origin # Code) =>
            LET def == Val(LegacyState(kn).initialize)
            IN ret[p] = Value(Val(legacyInitializer(env, def, legacyNewState(def)).current))

\* ================================================================== C30
\* C30: the entry of a handle the program holds leaves the registry only
\* in a deleteState the program calls.
C30_HeldHandleKeepsEntry ==
    [][\A kn \in issued :
        (InRegistry(kn) /\ ~InRegistry(kn)') =>
            \E p \in Procs : LegacyCalls(p, "deleteState", kn)]_vars

\* ================================================================== C31
\* The last origin held by the state that (sc, kn) has, and the goroutine
\* that holds its write lock (0: none).
LastOrigin(sc, kn) == objs[sc][kn][states[sc][kn]].origin
Writer(sc, kn) == objs[sc][kn][states[sc][kn]].w
\* The stored pair of (sc, kn) changes in this step.
PairChanges(sc, kn) ==
    Current(sc, kn)' # Current(sc, kn) \/ LastOrigin(sc, kn)' # LastOrigin(sc, kn)

\* C31: the value and the last origin of a state are written by one
\* SetScope at a time: while a SetScope holds the state's write lock no
\* other goroutine changes either, a change starts by taking the lock, and
\* the SetScope that releases the lock leaves its own value with its own
\* origin.
C31_PairFromOneSet ==
    [][\A sc \in Scopes, kn \in KnobIds :
        (states[sc][kn] # 0 /\ states'[sc][kn] # 0) =>
            /\ \A p \in Procs, v \in SetValues, o \in SetOrigins :
                (/\ pc[p] = "st_current" /\ pc'[p] = "done"
                 /\ call[p].sc = sc /\ call[p].kn = kn
                 /\ call[p].value = v /\ call[p].origin = o) =>
                    /\ Current(sc, kn)' = Some(v) /\ LastOrigin(sc, kn)' = o
                    /\ Writer(sc, kn)' = 0
            /\ (Writer(sc, kn) # 0 /\ PairChanges(sc, kn)) =>
                    pc'[Writer(sc, kn)] # pc[Writer(sc, kn)]
            /\ (Writer(sc, kn) = 0 /\ PairChanges(sc, kn)) =>
                    /\ Writer(sc, kn)' # 0
                    /\ Current(sc, kn)' = Current(sc, kn)]_vars

\* Two SetScope calls on one pair, with different values and origins,
\* were made together and have both returned: the state holds the value
\* and the origin of one of them.
C31_Witness ==
    \E p, q \in Procs :
        /\ p # q /\ budget = MaxCalls - 2
        /\ pc[p] = "done" /\ pc[q] = "done"
        /\ Allowed(call[p]) /\ Allowed(call[q])
        /\ call[p].sc = call[q].sc /\ call[p].kn = call[q].kn
        /\ call[p].value # call[q].value /\ call[p].origin # call[q].origin
        /\ states[call[q].sc][call[q].kn] # 0
        /\ Current(call[q].sc, call[q].kn) = Some(call[q].value)
        /\ LastOrigin(call[q].sc, call[q].kn) = call[q].origin

\* ================================================================== C32
\* Variable k is set to a value that is empty once trimmed, and the
\* environment e with every such variable unset.
Blank(e, k) == Has(e[k]) /\ TrimSpace(Val(e[k])) = <<>>
Unblanked(e) == [k \in Keys |-> IF Blank(e, k) THEN None ELSE e[k]]

\* C32: a variable that is set to an empty or blank value counts as an
\* unset one: Get returns, and the state holds, the value and the origin
\* that the knob resolves to in the environment without these variables;
\* the same for Get on the earlier version's registry.
C32_BlankCountsAsUnset ==
    /\ GetReturned =>
        LET s == init(Unblanked(env), NewState(registry[1], 0))
        IN /\ ret[1] = ReadOutcome(s)
           /\ sget(1, 1).origin = s.origin
    /\ LegacyReturned =>
        LET s == legacyInitializer(Unblanked(env), TheDef, legacyNewState(TheDef))
        IN /\ ret[1] = Value(Val(s.current))
           /\ LegacyState(1).origin = s.origin

\* ================================================================== C33
\* Goroutine p is in a call, and holds the read lock of some state.
Busy(p) == pc[p] # "idle"
HoldsRead(p) ==
    \E sc \in Scopes, kn \in KnobIds :
        \E i \in 1..Len(objs[sc][kn]) : p \in objs[sc][kn][i].r

\* Who holds a scope's lock is inside Scope.get, past the lookup, where
\* the only lock still to take is the registry's; who holds a state's
\* write lock or defMux takes no other lock.  State locks are therefore
\* taken with no scope or registry lock held.
LockOrder ==
    /\ \A sc \in Scopes : scLock[sc] # 0 => pc[scLock[sc]] = "sc_create"
    /\ \A sc \in Scopes, kn \in KnobIds :
        \A i \in 1..Len(objs[sc][kn]) :
            objs[sc][kn][i].w # 0 => pc[objs[sc][kn][i].w] = "st_current"
    /\ defMux # 0 => pc[defMux] \in {"ds_check", "ds_new"} /\ ~HoldsRead(defMux)

\* Goroutine p is not waiting for a lock, even when every writer that is
\* about to lock a state already keeps new readers out.
CanGoOn(p) ==
    CASE pc[p] = "sc_get" -> scLock[call[p].sc] = 0
      [] pc[p] = "der_set" -> scLock[call[p].sc] = 0
      [] pc[p] = "st_rlock" ->
            /\ Obj(sptr[p]).w = 0
            /\ \A q \in Procs \ {p} : ~(pc[q] = "st_lock" /\ sptr[q] = sptr[p])
      [] pc[p] = "st_lock" -> Obj(sptr[p]).w = 0 /\ Obj(sptr[p]).r = {}
      [] OTHER -> TRUE

\* C33: locks are taken in the order state, scope, registry; whenever
\* goroutines are in calls one of them can go on; and under fair
\* scheduling every call returns, unless the process has panicked.
C33_NoDeadlock ==
    /\ [](/\ LockOrder
          /\ (~crashed /\ \E p \in Procs : Busy(p)) =>
                \E p \in Procs : Busy(p) /\ CanGoOn(p))
    /\ \A p \in Procs : Busy(p) ~> (~Busy(p) \/ crashed)

\* A GetScope on the derived knob holds its state's read lock and is on
\* its way to the parent, whose state another goroutine is creating under
\* the scope's lock: it waits for the scope lock with the state lock held.
C33_Witness ==
    \E p, q \in Procs :
        /\ pc[p] = "sc_get" /\ call[p].op = "GetScope" /\ HoldsRead(p)
        /\ cur[p] # call[p].kn
        /\ scLock[call[p].sc] = q /\ cur[q] = cur[p]

\* ================================================================== C34
\* C34: the parent a state names is an id smaller than the state's own,
\* and each step of GetScope's recursion goes on to a smaller id, between
\* 1 and the id of the call: the recursion ends within as many steps as
\* there are knobs before the one asked for.
C34_ParentIsOlder ==
    /\ [](\A sc \in Scopes, kn \in KnobIds :
            \A i \in 1..Len(objs[sc][kn]) :
                objs[sc][kn][i].parent > 0 => objs[sc][kn][i].parent < kn)
    /\ [][\A p \in Procs :
            (call[p].op = "GetScope" /\ pc[p] = "st_rlock" /\ pc'[p] = "sc_get") =>
                cur'[p] < cur[p] /\ cur'[p] >= 1 /\ cur[p] <= call[p].kn]_vars

\* A knob derived from a derived knob: a GetScope on it is at the root,
\* two steps of the recursion down, holding both derived states.
C34_Witness ==
    \E p \in Procs, sc \in Scopes :
        /\ call[p].op = "GetScope" /\ call[p].sc = sc /\ pc[p] = "st_rlock"
        /\ Depth(sc, call[p].kn) = 2
        /\ cur[p] < sget(sc, call[p].kn).parent
        /\ IsRegistered(cur[p])

\* ================================================================== C35
\* C35: a step changes the stored value or origin of a state only when it
\* is a step of a SetScope called on that state's scope and knob; the
\* states of the parent, of the siblings and of the derived knobs stay as
\* they are, and no step of GetScope changes a state that is there.
C35_SetScopeChangesOwnStateOnly ==
    [][\A sc \in Scopes, kn \in KnobIds :
        \A i \in 1..Len(objs[sc][kn]) :
            (\/ objs'[sc][kn][i].current # objs[sc][kn][i].current
             \/ objs'[sc][kn][i].origin # objs[sc][kn][i].origin) =>
                \E p \in Procs :
                    /\ call[p].op = "SetScope"
                    /\ call[p].sc = sc /\ call[p].kn = kn
                    /\ pc[p] \in {"st_lock", "st_current"}
                    /\ pc'[p] # pc[p]]_vars

\* SetScope is back from a derived knob whose parent has, in the same
\* scope, a state with another value.
C35_Witness ==
    \E p \in Procs, sc \in Scopes :
        /\ call[p].op = "SetScope" /\ call[p].sc = sc
        /\ pc[p] = "done" /\ ret[p] = Void
        /\ states[sc][call[p].kn] # 0
        /\ Current(sc, call[p].kn) = Some(call[p].value)
        /\ LET par == sget(sc, call[p].kn).parent
           IN /\ par > 0 /\ states[sc][par] # 0
              /\ Has(Current(sc, par))
              /\ Current(sc, par) # Current(sc, call[p].kn)

====
